---------------------------- MODULE Spec2Model ----------------------------
(***************************************************************************)
(* Model of the video-generation lifecycle of zurkamer/veo3.               *)
(*                                                                         *)
(* Two programs live in the repository:                                    *)
(*   - src/index.tsx: the plain-DOM page (generate / generateContent),     *)
(*     which holds the polling loop;                                       *)
(*   - src/unnamed/part_000: the types and the React App component         *)
(*     (handleGenerate, handleRetry, handleApiKeyDialogContinue,           *)
(*     handleNewVideo, handleTryAgainFromError, handleExtend).             *)
(*                                                                         *)
(* Strings are modelled as sequences of words (a word is a TLA+ string);   *)
(* String.includes is contiguous-subsequence search on words, toLowerCase  *)
(* maps each word to its lower-case form, template literals are            *)
(* concatenation.                                                          *)
(***************************************************************************)
EXTENDS Integers, Sequences, FiniteSets, Bags, TLC

(***************************************************************************)
(* Bounds of the model.                                                    *)
(***************************************************************************)
\* number of fragments a thrown error message is assembled from
MaxFragments == 2
\* largest number of generated videos a finished operation reports
MaxVideos == 2
\* largest number of App handler calls suspended at an await at one time
MaxPending == 2
\* object URLs are counted up to this number
MaxLive == 2

(***************************************************************************)
(* Strings.                                                                *)
(***************************************************************************)
\* String.prototype.includes on word sequences
Includes(s, sub) ==
  \E k \in 0..(Len(s) - Len(sub)) :
    \A j \in 1..Len(sub) : s[k + j] = sub[j]

\* lower-case form of one word (words without upper-case letters are fixed)
LowerWord(w) ==
  CASE w = "Permission" -> "permission"
    [] w = "PERMISSION" -> "permission"
    [] w = "Denied" -> "denied"
    [] w = "DENIED" -> "denied"
    [] w = "Requested" -> "requested"
    [] w = "API" -> "api"
    [] w = "API_KEY_INVALID" -> "api_key_invalid"
    [] w = "Quota" -> "quota"
    [] OTHER -> w

\* String.prototype.toLowerCase
ToLowerCase(s) == [k \in 1..Len(s) |-> LowerWord(s[k])]

\* the phrases the classification looks for
PhraseNotFound == <<"Requested", "entity", "was", "not", "found.">>
PhraseKeyInvalidCode == <<"API_KEY_INVALID">>
PhraseKeyNotValid == <<"API", "key", "not", "valid">>
PhrasePermissionDenied == <<"permission", "denied">>

\* pieces error messages of the remote API are assembled from: the phrases,
\* case variants, broken-off parts of them and unrelated words
Fragments ==
  { PhraseNotFound, PhraseKeyInvalidCode, PhraseKeyNotValid,
    PhrasePermissionDenied,
    <<"Permission", "denied">>, <<"PERMISSION", "DENIED">>,
    <<"Requested", "entity">>, <<"was", "not", "found.">>,
    <<"API", "key">>, <<"not", "valid">>, <<"api", "key", "not", "valid">>,
    <<"permission">>, <<"denied">>, <<"Quota", "exceeded">> }

RECURSIVE Concats(_)
Concats(n) ==
  IF n = 0 THEN { <<>> }
  ELSE LET shorter == Concats(n - 1)
       IN shorter \cup { s \o f : s \in shorter, f \in Fragments }

\* the messages (e.message) an Error thrown by a remote call may carry
Messages == Concats(MaxFragments)

\* what a failing call throws: an Error with a message, or a non-Error value
Thrown ==
  [isError : {TRUE}, message : Messages]
    \cup { [isError |-> FALSE, message |-> <<>>] }

MsgUnknownError == <<"An", "unknown", "error", "occurred.">>

\* e instanceof Error ? e.message : 'An unknown error occurred.'
MessageOf(e) == IF e.isError THEN e.message ELSE MsgUnknownError


(***************************************************************************)
(* Error classification (index.tsx generate, App handleGenerate).          *)
(***************************************************************************)
MsgModelNotFound ==
  <<"Model", "not", "found.", "This", "can", "be", "caused", "by", "an",
    "invalid", "API", "key", "or", "permission", "issues.", "Please",
    "check", "your", "API", "key.">>
MsgIndexKeyInvalid ==
  <<"Your", "API", "key", "is", "invalid.", "Please", "add", "a", "valid",
    "API", "key.">>
MsgAppKeyInvalid ==
  <<"Your", "API", "key", "is", "invalid", "or", "lacks", "permissions.",
    "Please", "select", "a", "valid,", "billing-enabled", "API", "key.">>
PrefixIndex == <<"Error:">>
PrefixApp == <<"Video", "generation", "failed:">>

\* the test of the else-if branch, the same in both programs
MentionsInvalidKey(message) ==
  \/ Includes(message, PhraseKeyInvalidCode)
  \/ Includes(message, PhraseKeyNotValid)
  \/ Includes(ToLowerCase(message), PhrasePermissionDenied)

\* a catch block that opens the dialog for every failure
ClassifyIndex_AlwaysDialog(message) ==
  [branch |-> "unknown", userFriendlyMessage |-> PrefixIndex \o message,
   shouldOpenDialog |-> TRUE]

\* index.tsx generate, the catch block's classification
ClassifyIndex(message) ==
  IF Includes(message, PhraseNotFound)
  THEN [branch |-> "not-found", userFriendlyMessage |-> MsgModelNotFound,
        shouldOpenDialog |-> TRUE]
  ELSE IF MentionsInvalidKey(message)
  THEN [branch |-> "credential-invalid",
        userFriendlyMessage |-> MsgIndexKeyInvalid,
        shouldOpenDialog |-> TRUE]
  ELSE [branch |-> "unknown",
        userFriendlyMessage |-> PrefixIndex \o message,
        shouldOpenDialog |-> FALSE]

\* a catch block that tests the invalid-key phrases first
ClassifyApp_KeyFirst(message) ==
  IF MentionsInvalidKey(message)
  THEN [branch |-> "credential-invalid",
        userFriendlyMessage |-> MsgAppKeyInvalid,
        shouldOpenDialog |-> TRUE]
  ELSE IF Includes(message, PhraseNotFound)
  THEN [branch |-> "not-found", userFriendlyMessage |-> MsgModelNotFound,
        shouldOpenDialog |-> TRUE]
  ELSE [branch |-> "unknown",
        userFriendlyMessage |-> PrefixApp \o message,
        shouldOpenDialog |-> FALSE]

\* App handleGenerate, the catch block's classification
ClassifyApp(message) ==
  IF Includes(message, PhraseNotFound)
  THEN [branch |-> "not-found", userFriendlyMessage |-> MsgModelNotFound,
        shouldOpenDialog |-> TRUE]
  ELSE IF MentionsInvalidKey(message)
  THEN [branch |-> "credential-invalid",
        userFriendlyMessage |-> MsgAppKeyInvalid,
        shouldOpenDialog |-> TRUE]
  ELSE [branch |-> "unknown",
        userFriendlyMessage |-> PrefixApp \o message,
        shouldOpenDialog |-> FALSE]

(***************************************************************************)
(* index.tsx: constants and values.                                        *)
(***************************************************************************)
maxPolls == 20

MsgPollFailed ==
  <<"Failed", "to", "get", "video", "generation", "status.", "Please",
    "try", "again.">>
MsgTimedOut ==
  <<"Video", "generation", "timed", "out.", "Please", "try", "again",
    "with", "a", "simpler", "prompt.">>
MsgNoVideos ==
  <<"No", "videos", "were", "generated.", "The", "prompt", "may", "have",
    "been", "blocked.">>
MsgEnterPrompt ==
  <<"Please", "enter", "a", "prompt", "to", "generate", "a", "video.">>
MsgKeyNotConfigured ==
  <<"API", "key", "is", "not", "configured.", "Please", "add", "your",
    "API", "key.">>
MsgDialogUnavailable ==
  <<"API", "key", "selection", "is", "not", "available.", "Please",
    "configure", "the", "API_KEY", "environment", "variable.">>
MsgInitializing == <<"Initializing", "video", "generation...">>
MsgGenerating == <<"Generating...">>
MsgDownloading == <<"Downloading", "video...">>

\* statusEl's content: plain innerText, or the red span of showStatusError
StatusText(text) == [error |-> FALSE, text |-> text]
StatusError(message) == [error |-> TRUE, text |-> message]

\* texts of the prompt box, character by character: empty, blanks only, and
\* a prompt with blanks around and inside it
Prompts == { <<>>, <<" ", " ">>, <<" ", "a", " ", "c", "a", "t", " ">> }

\* what the remote calls of a run throw: Errors whose message holds one of
\* the phrases, several, a case variant, none, and a non-Error value
RemoteThrown ==
  { [isError |-> TRUE, message |-> PhraseNotFound],
    [isError |-> TRUE, message |-> PhraseKeyNotValid \o PhraseNotFound],
    [isError |-> TRUE, message |-> <<"Quota", "exceeded">> \o PhraseKeyInvalidCode],
    [isError |-> TRUE, message |-> <<"PERMISSION", "DENIED">>],
    [isError |-> TRUE, message |-> <<"Quota", "exceeded">>],
    [isError |-> FALSE, message |-> <<>>] }

\* String.prototype.trim
RECURSIVE TrimStart(_)
TrimStart(s) ==
  IF s # <<>> /\ Head(s) = " " THEN TrimStart(Tail(s)) ELSE s
RECURSIVE TrimEnd(_)
TrimEnd(s) ==
  IF s # <<>> /\ s[Len(s)] = " " THEN TrimEnd(SubSeq(s, 1, Len(s) - 1))
  ELSE s
Trim(s) == TrimEnd(TrimStart(s))

\* what generateVideos / getVideosOperation resolve to: done, and
\* response?.generatedVideos as the number of videos, -1 for undefined
Operations == [done : BOOLEAN, videos : -1..MaxVideos]
NoOperation == [done |-> FALSE, videos |-> -1]

(***************************************************************************)
(* State.                                                                  *)
(***************************************************************************)
VARIABLES
  \* the environment, shared by both programs
  aistudio,       \* window.aistudio is present
  \* index.tsx
  apiKey,         \* process.env.API_KEY is set (truthy)
  prompt,         \* the module variable prompt
  controls,       \* .disabled of generateButton, upload and promptEl
  statusEl,       \* the content of the #status element
  videoEl,        \* the #video element: src set, style.display
  pc,             \* where generate()/generateContent() is suspended
  operation,      \* generateContent's local operation
  pollCount,      \* generateContent's local pollCount
  vidIndex,       \* the index i of the download loop
  caught,         \* errorMessage of the catch block (<<>> when none)
  failedAt,       \* history: the statement that threw, "nokey" for the
                  \* return without a key, "none" when none
  calls,          \* history: remote calls issued by the current click
  dialogAsked,    \* history: openApiKeyDialog was called by the current click
  uncaught,       \* history: generate()'s promise was rejected
  seen,           \* history: what the responses of the current click reported
  liveUrls,       \* history: object URLs made by URL.createObjectURL and not
                  \* revoked, counted up to MaxLive
  \* part_000: the App component's useState slots
  appState,
  videoUrl,
  errorMessage,
  lastConfig,
  lastVideoObject,
  lastVideoBlob,
  showApiKeyDialog,
  initialFormValues,
  \* part_000: calls suspended at an await
  mountCheck,     \* checkApiKey of the mount effect awaits hasSelectedApiKey
  keyChecks,      \* handleGenerate(params) awaiting hasSelectedApiKey: params,
                  \* and (history) whether handleRetry made the call
  attempts,       \* handleGenerate(params) awaiting generateVideo: params,
                  \* and (history) whether a later attempt or a reset has
                  \* superseded it
  continues,      \* handleApiKeyDialogContinue awaiting openSelectKey: the
                  \* appState and lastConfig of the render it was made in
  afterReset,     \* history: handleNewVideo ran and no user command since
  failedConfig,   \* history: the request of the attempt whose rejection is
                  \* shown (Null while no error is shown)
  \* the catch blocks of both programs, applied to one thrown value
  thrown,         \* the value caught
  classified      \* what each catch block made of it (Null before)

ixVars ==
  <<apiKey, prompt, controls, statusEl, videoEl, pc, operation, pollCount,
    vidIndex, caught, failedAt, calls, dialogAsked, uncaught, seen,
    liveUrls>>

appVars ==
  <<appState, videoUrl, errorMessage, lastConfig, lastVideoObject,
    lastVideoBlob, showApiKeyDialog, initialFormValues, mountCheck,
    keyChecks, attempts, continues, afterReset, failedConfig>>

clsVars == <<thrown, classified>>

NoCalls == [submit |-> 0, query |-> 0, fetch |-> 0]
NothingSeen == [done |-> FALSE, doneEmpty |-> FALSE]
ControlsAre(disabled) ==
  [generateButton |-> disabled, upload |-> disabled, promptEl |-> disabled]

InitIndex ==
  /\ apiKey = FALSE    \* KeyChanges sets it
  /\ prompt = <<>>
  /\ controls = ControlsAre(FALSE)
  /\ statusEl = StatusText(<<>>)
  /\ videoEl = [src |-> FALSE, display |-> "none"]
  /\ pc = "idle"
  /\ operation = NoOperation
  /\ pollCount = 0
  /\ vidIndex = 0
  /\ caught = <<>>
  /\ failedAt = "none"
  /\ calls = NoCalls
  /\ dialogAsked = FALSE
  /\ uncaught = FALSE
  /\ seen = NothingSeen
  /\ liveUrls = 0

(***************************************************************************)
(* index.tsx: generate() and generateContent().                            *)
(***************************************************************************)
\* setControlsDisabled
setControlsDisabled(disabled) == controls' = ControlsAre(disabled)

\* a loop that tests the count with <=
LoopContinues_OffByOne(op, n) == ~op.done /\ n <= maxPolls

\* the while condition of the polling loop
LoopContinues(op, n) == ~op.done /\ n < maxPolls

\* a test that forgets the missing response
NoVideos_LengthOnly(op) == op.videos = 0

\* videos === undefined || videos.length === 0
NoVideos(op) == op.videos = -1 \/ op.videos = 0

\* a catch block that logs the error and shows nothing
Catch_NotShown(e, site) ==
  /\ caught' = MessageOf(e)
  /\ failedAt' = site
  /\ operation' = NoOperation
  /\ pollCount' = 0
  /\ vidIndex' = 0
  /\ dialogAsked' = FALSE
  /\ pc' = "idle"
  /\ setControlsDisabled(FALSE)
  /\ UNCHANGED statusEl

\* generate(): catch (e) { ... } finally { ... } for e thrown at `site`.
\* With a dialog to open and window.aistudio present the function suspends in
\* openSelectKey (controls still disabled); without it openApiKeyDialog
\* overwrites the status with its fallback text and the finally block runs.
Catch(e, site) ==
  LET message == MessageOf(e)
      c == ClassifyIndex(message)
  IN /\ caught' = message
     /\ failedAt' = site
     /\ operation' = NoOperation
     /\ pollCount' = 0
     /\ vidIndex' = 0
     /\ dialogAsked' = c.shouldOpenDialog
     /\ IF c.shouldOpenDialog /\ aistudio
        THEN /\ statusEl' = StatusError(c.userFriendlyMessage)
             /\ pc' = "errDialog"
             /\ UNCHANGED controls
        ELSE /\ statusEl' =
                  IF c.shouldOpenDialog
                  THEN StatusError(MsgDialogUnavailable)
                  ELSE StatusError(c.userFriendlyMessage)
             /\ pc' = "idle"
             /\ setControlsDisabled(FALSE)

\* a generateContent without the polling loop and its timeout
AfterResponse_SkipsPolling(op, n, status) ==
  IF NoVideos(op)
  THEN Catch([isError |-> TRUE, message |-> MsgNoVideos], "empty")
  ELSE /\ operation' = op
       /\ pollCount' = n
       /\ statusEl' = StatusText(MsgDownloading)
       /\ vidIndex' = 0
       /\ pc' = "iter"
       /\ UNCHANGED <<controls, caught, failedAt, dialogAsked>>

\* a loop that gives up by the count of queries alone
AfterResponse_TimeoutByCount(op, n, status) ==
  IF LoopContinues(op, n)
  THEN /\ operation' = op
       /\ pollCount' = n + 1
       /\ pc' = "delay"
       /\ statusEl' = status
       /\ UNCHANGED <<controls, caught, failedAt, dialogAsked, vidIndex>>
  ELSE IF ~op.done \/ n >= maxPolls
  THEN Catch([isError |-> TRUE, message |-> MsgTimedOut], "timeout")
  ELSE IF NoVideos(op)
  THEN Catch([isError |-> TRUE, message |-> MsgNoVideos], "empty")
  ELSE /\ operation' = op
       /\ pollCount' = n
       /\ statusEl' = StatusText(MsgDownloading)
       /\ vidIndex' = 0
       /\ pc' = "iter"
       /\ UNCHANGED <<controls, caught, failedAt, dialogAsked>>

\* generateContent from the loop test on, with `op` the operation just
\* received, `n` the value of pollCount and `status` the content of statusEl
AfterResponse(op, n, status) ==
  IF LoopContinues(op, n)
  THEN /\ operation' = op
       /\ pollCount' = n + 1
       /\ pc' = "delay"
       /\ statusEl' = status
       /\ UNCHANGED <<controls, caught, failedAt, dialogAsked, vidIndex>>
  ELSE IF ~op.done
  THEN Catch([isError |-> TRUE, message |-> MsgTimedOut], "timeout")
  ELSE IF NoVideos(op)
  THEN Catch([isError |-> TRUE, message |-> MsgNoVideos], "empty")
  ELSE /\ operation' = op
       /\ pollCount' = n
       /\ statusEl' = StatusText(MsgDownloading)
       /\ vidIndex' = 0
       /\ pc' = "iter"
       /\ UNCHANGED <<controls, caught, failedAt, dialogAsked>>

\* promptEl 'input' listener
PromptInput ==
  /\ UNCHANGED <<appVars, clsVars, liveUrls>>
  /\ ~controls.promptEl
  /\ \E p \in Prompts : prompt' = p
  /\ UNCHANGED <<aistudio, apiKey, controls, statusEl, videoEl, pc, operation,
                 pollCount, vidIndex, caught, failedAt, calls, dialogAsked,
                 uncaught, seen>>

\* the environment sets or clears process.env.API_KEY (a key is selected in
\* the host's dialog, or configured); generate() reads it once, on entry
KeyChanges ==
  /\ UNCHANGED <<appVars, clsVars, liveUrls>>
  /\ pc = "idle"
  /\ apiKey' = ~apiKey
  /\ UNCHANGED <<aistudio, prompt, controls, statusEl, videoEl, pc, operation,
                 pollCount, vidIndex, caught, failedAt, calls, dialogAsked,
                 uncaught, seen>>

\* generateButton 'click' with a blank prompt
ClickBlank ==
  /\ UNCHANGED <<appVars, clsVars, liveUrls>>
  /\ ~controls.generateButton
  /\ Trim(prompt) = <<>>
  /\ statusEl' = StatusError(MsgEnterPrompt)
  /\ calls' = NoCalls
  /\ dialogAsked' = FALSE
  /\ failedAt' = "none"
  /\ caught' = <<>>
  /\ seen' = NothingSeen
  /\ UNCHANGED <<aistudio, apiKey, prompt, controls, videoEl, pc, operation,
                 pollCount, vidIndex, uncaught>>

\* click -> generate() without an API key: the status error, then
\* openApiKeyDialog (openSelectKey, or the fallback status error); nothing
\* follows the await but the return
GenerateNoKey ==
  /\ UNCHANGED <<appVars, clsVars, liveUrls>>
  /\ ~controls.generateButton
  /\ Trim(prompt) # <<>>
  /\ ~apiKey
  /\ statusEl' = IF aistudio THEN StatusError(MsgKeyNotConfigured)
                 ELSE StatusError(MsgDialogUnavailable)
  /\ dialogAsked' = TRUE
  /\ calls' = NoCalls
  /\ failedAt' = "nokey"
  /\ caught' = <<>>
  /\ seen' = NothingSeen
  /\ UNCHANGED <<aistudio, apiKey, prompt, controls, videoEl, pc, operation,
                 pollCount, vidIndex, uncaught>>

\* click -> generate() with an API key, up to the first await of
\* generateContent (ai.models.generateVideos is called)
GenerateStart ==
  /\ UNCHANGED <<appVars, clsVars, liveUrls>>
  /\ ~controls.generateButton
  /\ Trim(prompt) # <<>>
  /\ apiKey
  /\ statusEl' = StatusText(MsgInitializing)
  /\ videoEl' = [videoEl EXCEPT !.display = "none"]
  /\ setControlsDisabled(TRUE)
  /\ calls' = [NoCalls EXCEPT !.submit = 1]
  /\ pc' = "submit"
  /\ operation' = NoOperation
  /\ pollCount' = 0
  /\ vidIndex' = 0
  /\ dialogAsked' = FALSE
  /\ failedAt' = "none"
  /\ caught' = <<>>
  /\ seen' = NothingSeen
  /\ UNCHANGED <<aistudio, apiKey, prompt, uncaught>>

\* await ai.models.generateVideos(params) resolves
SubmitReturns ==
  /\ UNCHANGED <<appVars, clsVars, liveUrls>>
  /\ pc = "submit"
  /\ \E op \in Operations :
       /\ AfterResponse(op, 0, StatusText(MsgGenerating))
       /\ seen' = [done |-> op.done, doneEmpty |-> op.done /\ op.videos < 1]
  /\ UNCHANGED <<aistudio, apiKey, prompt, videoEl, calls, uncaught>>

\* await ai.models.generateVideos(params) rejects
SubmitFails ==
  /\ UNCHANGED <<appVars, clsVars, liveUrls>>
  /\ pc = "submit"
  /\ \E e \in RemoteThrown : Catch(e, "submit")
  /\ UNCHANGED <<aistudio, apiKey, prompt, videoEl, calls, uncaught, seen>>

\* await delay(10000) resolves; getVideosOperation is called
DelayElapses ==
  /\ UNCHANGED <<appVars, clsVars, liveUrls>>
  /\ pc = "delay"
  /\ pc' = "query"
  /\ calls' = [calls EXCEPT !.query = @ + 1]
  /\ UNCHANGED <<aistudio, apiKey, prompt, controls, statusEl, videoEl,
                 operation, pollCount, vidIndex, caught, failedAt, dialogAsked,
                 uncaught, seen>>

\* await ai.operations.getVideosOperation({operation}) resolves
QueryReturns ==
  /\ UNCHANGED <<appVars, clsVars, liveUrls>>
  /\ pc = "query"
  /\ \E op \in Operations :
       /\ AfterResponse(op, pollCount, statusEl)
       /\ seen' = [done |-> seen.done \/ op.done,
                   doneEmpty |-> seen.doneEmpty \/ (op.done /\ op.videos < 1)]
  /\ UNCHANGED <<aistudio, apiKey, prompt, videoEl, calls, uncaught>>

\* an inner catch that logs the error and lets the loop go on with the
\* operation it had
QueryFails_Retried ==
  /\ UNCHANGED <<appVars, clsVars, liveUrls>>
  /\ pc = "query"
  /\ AfterResponse(operation, pollCount, statusEl)
  /\ UNCHANGED <<aistudio, apiKey, prompt, videoEl, calls, uncaught, seen>>

\* getVideosOperation rejects with e: the inner catch logs e and throws its
\* own Error, whatever e is
QueryRejects(e) ==
  /\ UNCHANGED <<appVars, clsVars, liveUrls>>
  /\ pc = "query"
  /\ Catch([isError |-> TRUE, message |-> MsgPollFailed], "query")
  /\ UNCHANGED <<aistudio, apiKey, prompt, videoEl, calls, uncaught, seen>>

\* getVideosOperation rejects
QueryFails == \E e \in RemoteThrown : QueryRejects(e)

\* the top of the download loop's body: decodeURIComponent(v.video.uri)
\* throws (no video, a malformed uri), or fetch is called
LoopBody ==
  /\ UNCHANGED <<appVars, clsVars, liveUrls>>
  /\ pc = "iter"
  /\ \/ /\ pc' = "fetch"
        /\ calls' = [calls EXCEPT !.fetch = @ + 1]
        /\ UNCHANGED <<controls, statusEl, caught, failedAt, dialogAsked,
                       operation, pollCount, vidIndex>>
     \/ /\ \E e \in RemoteThrown : e.isError /\ Catch(e, "decode")
        /\ UNCHANGED calls
  /\ UNCHANGED <<aistudio, apiKey, prompt, videoEl, uncaught, seen>>

\* await fetch(...) resolves
FetchReturns ==
  /\ UNCHANGED <<appVars, clsVars, liveUrls>>
  /\ pc = "fetch"
  /\ pc' = "blob"
  /\ UNCHANGED <<aistudio, apiKey, prompt, controls, statusEl, videoEl,
                 operation, pollCount, vidIndex, caught, failedAt, calls,
                 dialogAsked, uncaught, seen>>

\* await fetch(...) rejects
FetchFails ==
  /\ UNCHANGED <<appVars, clsVars, liveUrls>>
  /\ pc = "fetch"
  /\ \E e \in RemoteThrown : Catch(e, "fetch")
  /\ UNCHANGED <<aistudio, apiKey, prompt, videoEl, calls, uncaught, seen>>

\* await res.blob() resolves: the object URL is made, downloaded and shown;
\* then the next video, or the end of generateContent, statusEl cleared and
\* the finally block
BlobReturns ==
  /\ UNCHANGED <<appVars, clsVars>>
  /\ pc = "blob"
  /\ liveUrls' = IF liveUrls < MaxLive THEN liveUrls + 1 ELSE MaxLive
  /\ videoEl' = [src |-> TRUE, display |-> "block"]
  /\ IF vidIndex + 1 < operation.videos
     THEN /\ vidIndex' = vidIndex + 1
          /\ pc' = "iter"
          /\ UNCHANGED <<statusEl, controls, operation, pollCount>>
     ELSE /\ pc' = "idle"
          /\ statusEl' = StatusText(<<>>)
          /\ setControlsDisabled(FALSE)
          /\ operation' = NoOperation
          /\ pollCount' = 0
          /\ vidIndex' = 0
  /\ UNCHANGED <<aistudio, apiKey, prompt, caught, failedAt, calls,
                 dialogAsked, uncaught, seen>>

\* await res.blob() rejects
BlobFails ==
  /\ UNCHANGED <<appVars, clsVars, liveUrls>>
  /\ pc = "blob"
  /\ \E e \in RemoteThrown : Catch(e, "blob")
  /\ UNCHANGED <<aistudio, apiKey, prompt, videoEl, calls, uncaught, seen>>

\* await openApiKeyDialog() of the catch block resolves: finally
ErrDialogReturns ==
  /\ UNCHANGED <<appVars, clsVars, liveUrls>>
  /\ pc = "errDialog"
  /\ pc' = "idle"
  /\ setControlsDisabled(FALSE)
  /\ UNCHANGED <<aistudio, apiKey, prompt, statusEl, videoEl, operation,
                 pollCount, vidIndex, caught, failedAt, calls, dialogAsked,
                 uncaught, seen>>

\* a rejection that leaves generate() without its finally block
ErrDialogFails_NoFinally ==
  /\ UNCHANGED <<appVars, clsVars, liveUrls>>
  /\ pc = "errDialog"
  /\ pc' = "idle"
  /\ uncaught' = TRUE
  /\ UNCHANGED <<aistudio, apiKey, prompt, controls, statusEl, videoEl,
                 operation, pollCount, vidIndex, caught, failedAt, calls,
                 dialogAsked, seen>>

\* await openApiKeyDialog() of the catch block rejects (openSelectKey threw):
\* finally runs and the rejection leaves generate()
ErrDialogFails ==
  /\ UNCHANGED <<appVars, clsVars, liveUrls>>
  /\ pc = "errDialog"
  /\ pc' = "idle"
  /\ setControlsDisabled(FALSE)
  /\ uncaught' = TRUE
  /\ UNCHANGED <<aistudio, apiKey, prompt, statusEl, videoEl, operation,
                 pollCount, vidIndex, caught, failedAt, calls, dialogAsked,
                 seen>>

StepIndex ==
  \/ PromptInput
  \/ KeyChanges
  \/ ClickBlank
  \/ GenerateNoKey
  \/ GenerateStart
  \/ SubmitReturns
  \/ SubmitFails
  \/ DelayElapses
  \/ QueryReturns
  \/ QueryFails
  \/ LoopBody
  \/ FetchReturns
  \/ FetchFails
  \/ BlobReturns
  \/ BlobFails
  \/ ErrDialogReturns
  \/ ErrDialogFails

(***************************************************************************)
(* part_000: types.                                                        *)
(***************************************************************************)
AppStates == {"IDLE", "LOADING", "SUCCESS", "ERROR"}
VeoModels == {"veo-3.1-fast-generate-preview", "veo-3.1-generate-preview"}
AspectRatios == {"16:9", "9:16"}
Resolutions == {"720p", "1080p"}
GenerationModes ==
  {"Text to Video", "Frames to Video", "References to Video", "Extend Video"}

\* null, and the value of an optional field that is absent
Null == [null |-> TRUE]
Undefined == [undefined |-> TRUE]

\* values of slots that may also hold null or be absent: a string (a sequence
\* of words), a boolean, an array of images
Str(s) == [str |-> s]
Bool(b) == [bool |-> b]
Images(a) == [images |-> a]

\* what generateVideo resolves to: {objectUrl, blob, video}. The three parts
\* of one result carry the resolution of the request they were generated for
\* (history), which tells the results of different attempts apart.
ObjectUrl(res) == [objectUrl |-> res]
Blob(res) == [blob |-> res]
Video(res) == [video |-> res]

\* new File([blob], 'last_video.mp4', {type: blob.type}) in {file, base64: ''}
VideoFileOf(blob) ==
  [file |-> [bits |-> blob, name |-> "last_video.mp4"], base64 |-> ""]

\* an ImageFile chosen in the form
Image == [file |-> "image.png", base64 |-> "aW1n"]

\* every GenerateVideoParams value over a few prompts and attachments
AllParams ==
  [prompt : {"", "a cat"}, model : VeoModels, aspectRatio : AspectRatios,
   resolution : Resolutions, mode : GenerationModes,
   startFrame : {Undefined, Null, Image},
   endFrame : {Undefined, Null, Image},
   referenceImages : {Undefined, Images(<<>>), Images(<<Image, Image>>)},
   styleImage : {Undefined, Null, Image},
   inputVideo : {Undefined, Null, VideoFileOf(Blob("1080p"))},
   inputVideoObject : {Undefined, Null, Video("1080p")},
   isLooping : {Undefined, Bool(FALSE), Bool(TRUE)}]

\* a derivation that keeps the resolution of the request held
ExtendFormValues_KeepResolution(config, blob, video) ==
  [config EXCEPT
     !.mode = "Extend Video",
     !.prompt = "",
     !.inputVideo = VideoFileOf(blob),
     !.inputVideoObject = video,
     !.startFrame = Null,
     !.endFrame = Null,
     !.referenceImages = Images(<<>>),
     !.styleImage = Null,
     !.isLooping = Bool(FALSE)]

\* handleExtend: the value passed to setInitialFormValues
ExtendFormValues(config, blob, video) ==
  [config EXCEPT
     !.mode = "Extend Video",
     !.prompt = "",
     !.inputVideo = VideoFileOf(blob),
     !.inputVideoObject = video,
     !.resolution = "720p",
     !.startFrame = Null,
     !.endFrame = Null,
     !.referenceImages = Images(<<>>),
     !.styleImage = Null,
     !.isLooping = Bool(FALSE)]

(***************************************************************************)
(* part_000: the App component.                                            *)
(***************************************************************************)
\* useState initial values; the mount effect has called checkApiKey
InitApp ==
  /\ appState = "IDLE"
  /\ videoUrl = Null
  /\ errorMessage = Null
  /\ lastConfig = Null
  /\ lastVideoObject = Null
  /\ lastVideoBlob = Null
  /\ showApiKeyDialog = FALSE
  /\ initialFormValues = Null
  /\ mountCheck = aistudio
  /\ keyChecks = EmptyBag
  /\ attempts = EmptyBag
  /\ continues = EmptyBag
  /\ afterReset = FALSE
  /\ failedConfig = Null

\* calls suspended at an await of handleGenerate or handleApiKeyDialogContinue
Pending ==
  BagCardinality(keyChecks) + BagCardinality(attempts)
    + BagCardinality(continues)

\* requests the prompt form submits when it starts empty
FormParams ==
  { [prompt |-> "a cat", model |-> "veo-3.1-fast-generate-preview",
     aspectRatio |-> "16:9", resolution |-> "720p", mode |-> "Text to Video",
     startFrame |-> Null, endFrame |-> Null,
     referenceImages |-> Images(<<>>), styleImage |-> Null,
     inputVideo |-> Null, inputVideoObject |-> Null,
     isLooping |-> Bool(FALSE)],
    [prompt |-> "a cat", model |-> "veo-3.1-generate-preview",
     aspectRatio |-> "9:16", resolution |-> "1080p",
     mode |-> "Frames to Video",
     startFrame |-> Image, endFrame |-> Image,
     referenceImages |-> Images(<<>>), styleImage |-> Null,
     inputVideo |-> Null, inputVideoObject |-> Null,
     isLooping |-> Bool(TRUE)] }

\* requests the prompt form submits: a fresh one, or the initial values it
\* was given with a prompt typed in
FormSubmissions ==
  FormParams \cup
    (IF initialFormValues = Null THEN {}
     ELSE { [initialFormValues EXCEPT !.prompt = "a cat"] })

\* the results of hasSelectedApiKey: a key is selected, none is, it threw
KeyCheckResults == {"selected", "none", "threw"}

\* what the page renders (the JSX of App)
FormShown == appState = "IDLE"
ResultShown == appState = "SUCCESS" /\ videoUrl # Null
ErrorShown ==
  \/ appState = "SUCCESS" /\ videoUrl = Null
  \/ appState = "ERROR" /\ errorMessage # Null
canExtend == lastConfig # Null /\ lastConfig.resolution = "720p"
ExtendOffered == ResultShown /\ canExtend

\* ApiKeyDialog and the host's key selection are modal: while one is open
\* nothing else on the page can be clicked
PageCovered == showApiKeyDialog \/ continues # EmptyBag

\* history: every attempt in flight is superseded
Superseded(bag) ==
  LET marked == { [a EXCEPT !.stale = TRUE] : a \in BagToSet(bag) }
  IN [t \in marked |->
        CopiesIn(t, bag) + CopiesIn([t EXCEPT !.stale = FALSE], bag)]

\* history: the failed request is remembered for as long as its error is shown
FailedConfigKept ==
  failedConfig' = IF appState' = "ERROR" THEN failedConfig ELSE Null

\* showStatusError
showStatusError(message) ==
  /\ errorMessage' = Str(message)
  /\ appState' = "ERROR"

\* handleGenerate from setAppState(LOADING) to the call of generateVideo
StartAttempt(params) ==
  /\ appState' = "LOADING"
  /\ errorMessage' = Null
  /\ lastConfig' = params
  /\ initialFormValues' = Null
  /\ attempts' =
       Superseded(attempts) (+) SetToBag({[params |-> params, stale |-> FALSE]})

\* handleGenerate(params), up to its first await; retry (history) tells
\* whether handleRetry makes the call
handleGenerate(params, retry) ==
  IF aistudio
  THEN /\ keyChecks' =
            keyChecks (+) SetToBag({[params |-> params, retry |-> retry]})
       /\ UNCHANGED <<appState, errorMessage, lastConfig, initialFormValues,
                      attempts>>
  ELSE /\ StartAttempt(params)
       /\ UNCHANGED keyChecks

\* handleRetry, in a render whose lastConfig is `config`
handleRetry(config) ==
  IF config # Null THEN handleGenerate(config, TRUE)
  ELSE UNCHANGED <<appState, errorMessage, lastConfig, initialFormValues,
                   attempts, keyChecks>>

\* a reset that clears the slots and leaves appState as it is
handleNewVideo_KeepsState ==
  /\ UNCHANGED appState
  /\ videoUrl' = Null
  /\ errorMessage' = Null
  /\ lastConfig' = Null
  /\ lastVideoObject' = Null
  /\ lastVideoBlob' = Null
  /\ initialFormValues' = Null
  /\ attempts' = Superseded(attempts)
  /\ afterReset' = TRUE

\* handleNewVideo
handleNewVideo ==
  /\ appState' = "IDLE"
  /\ videoUrl' = Null
  /\ errorMessage' = Null
  /\ lastConfig' = Null
  /\ lastVideoObject' = Null
  /\ lastVideoBlob' = Null
  /\ initialFormValues' = Null
  /\ attempts' = Superseded(attempts)
  /\ afterReset' = TRUE

\* handleTryAgainFromError
handleTryAgainFromError ==
  IF lastConfig # Null
  THEN /\ initialFormValues' = lastConfig
       /\ appState' = "IDLE"
       /\ errorMessage' = Null
       /\ afterReset' = FALSE
       /\ UNCHANGED <<videoUrl, lastConfig, lastVideoObject, lastVideoBlob,
                      attempts>>
  ELSE handleNewVideo

\* handleExtend (new File(...) of a Blob does not throw: the catch block is
\* not reached)
handleExtend ==
  IF lastConfig # Null /\ lastVideoBlob # Null /\ lastVideoObject # Null
  THEN /\ initialFormValues' =
            ExtendFormValues(lastConfig, lastVideoBlob, lastVideoObject)
       /\ appState' = "IDLE"
       /\ videoUrl' = Null
       /\ errorMessage' = Null
       /\ UNCHANGED <<lastConfig, lastVideoObject, lastVideoBlob>>
  ELSE UNCHANGED <<initialFormValues, appState, videoUrl, errorMessage,
                   lastConfig, lastVideoObject, lastVideoBlob>>

\* the mount effect's checkApiKey resumes
MountCheckReturns ==
  /\ mountCheck
  /\ mountCheck' = FALSE
  /\ \E r \in KeyCheckResults :
       showApiKeyDialog' = IF r = "selected" THEN showApiKeyDialog ELSE TRUE
  /\ UNCHANGED <<aistudio, appState, videoUrl, errorMessage, lastConfig,
                 lastVideoObject, lastVideoBlob, initialFormValues,
                 keyChecks, attempts, continues, afterReset>>
  /\ FailedConfigKept
  /\ UNCHANGED <<ixVars, clsVars>>

\* PromptForm's onGenerate
SubmitForm ==
  /\ FormShown /\ ~PageCovered
  /\ Pending < MaxPending
  /\ \E params \in FormSubmissions : handleGenerate(params, FALSE)
  /\ afterReset' = FALSE
  /\ UNCHANGED <<aistudio, videoUrl, lastVideoObject, lastVideoBlob,
                 showApiKeyDialog, mountCheck, continues>>
  /\ FailedConfigKept
  /\ UNCHANGED <<ixVars, clsVars>>

\* the call k of handleGenerate resumes with the result r of
\* hasSelectedApiKey
KeyCheckResumes(k, r) ==
  /\ keyChecks' = keyChecks (-) SetToBag({k})
  /\ IF r = "selected"
     THEN /\ StartAttempt(k.params)
          /\ UNCHANGED showApiKeyDialog
     ELSE /\ showApiKeyDialog' = TRUE
          /\ UNCHANGED <<appState, errorMessage, lastConfig,
                         initialFormValues, attempts>>
  /\ UNCHANGED <<aistudio, videoUrl, lastVideoObject, lastVideoBlob,
                 mountCheck, continues, afterReset>>
  /\ FailedConfigKept
  /\ UNCHANGED <<ixVars, clsVars>>

\* handleGenerate resumes after hasSelectedApiKey
KeyCheckReturns ==
  \E k \in BagToSet(keyChecks), r \in KeyCheckResults :
    KeyCheckResumes(k, r)

\* handleGenerate resumes with the result of generateVideo(a.params)
AttemptResolves(a) ==
  /\ attempts' = attempts (-) SetToBag({a})
  /\ videoUrl' = ObjectUrl(a.params.resolution)
  /\ lastVideoBlob' = Blob(a.params.resolution)
  /\ lastVideoObject' = Video(a.params.resolution)
  /\ appState' = "SUCCESS"
  /\ UNCHANGED <<aistudio, errorMessage, lastConfig, showApiKeyDialog,
                 initialFormValues, mountCheck, keyChecks, continues,
                 afterReset>>
  /\ FailedConfigKept
  /\ UNCHANGED <<ixVars, clsVars>>

\* handleGenerate resumes in its catch block with e, thrown by
\* generateVideo(a.params)
AttemptRejects(a, e) ==
  LET c == ClassifyApp(MessageOf(e))
  IN /\ attempts' = attempts (-) SetToBag({a})
     /\ errorMessage' = Str(c.userFriendlyMessage)
     /\ appState' = "ERROR"
     /\ showApiKeyDialog' =
          IF c.shouldOpenDialog THEN TRUE ELSE showApiKeyDialog
     /\ UNCHANGED <<aistudio, videoUrl, lastConfig, lastVideoObject,
                    lastVideoBlob, initialFormValues, mountCheck, keyChecks,
                    continues, afterReset>>
     /\ failedConfig' = a.params
     /\ UNCHANGED <<ixVars, clsVars>>

\* generateVideo resolves
AttemptSucceeds ==
  \E a \in BagToSet(attempts) : AttemptResolves(a)

\* generateVideo rejects
AttemptFails ==
  \E a \in BagToSet(attempts), e \in RemoteThrown : AttemptRejects(a, e)

\* VideoResult's onRetry
ClickRetry ==
  /\ ResultShown /\ ~PageCovered
  /\ Pending < MaxPending
  /\ handleRetry(lastConfig)
  /\ afterReset' = FALSE
  /\ UNCHANGED <<aistudio, videoUrl, lastVideoObject, lastVideoBlob,
                 showApiKeyDialog, mountCheck, continues>>
  /\ FailedConfigKept
  /\ UNCHANGED <<ixVars, clsVars>>

\* VideoResult's onNewVideo
ClickNewVideo ==
  /\ ResultShown /\ ~PageCovered
  /\ handleNewVideo
  /\ UNCHANGED <<aistudio, showApiKeyDialog, mountCheck, keyChecks,
                 continues>>
  /\ FailedConfigKept
  /\ UNCHANGED <<ixVars, clsVars>>

\* VideoResult's onExtend
ClickExtend ==
  /\ ExtendOffered /\ ~PageCovered
  /\ handleExtend
  /\ afterReset' = FALSE
  /\ UNCHANGED <<aistudio, showApiKeyDialog, mountCheck, keyChecks,
                 attempts, continues>>
  /\ FailedConfigKept
  /\ UNCHANGED <<ixVars, clsVars>>

\* the error box's Try Again
ClickTryAgain ==
  /\ ErrorShown /\ ~PageCovered
  /\ handleTryAgainFromError
  /\ UNCHANGED <<aistudio, showApiKeyDialog, mountCheck, keyChecks,
                 continues>>
  /\ FailedConfigKept
  /\ UNCHANGED <<ixVars, clsVars>>

\* ApiKeyDialog's onContinue: handleApiKeyDialogContinue up to its await (with
\* window.aistudio), or to its end
ClickContinue ==
  /\ showApiKeyDialog
  /\ showApiKeyDialog' = FALSE
  /\ IF aistudio
     THEN /\ Pending < MaxPending
          /\ continues' = continues (+)
               SetToBag({[appState |-> appState, lastConfig |-> lastConfig]})
          /\ UNCHANGED <<appState, errorMessage, lastConfig,
                         initialFormValues, attempts, keyChecks>>
     ELSE /\ IF appState = "ERROR" /\ lastConfig # Null
             THEN handleRetry(lastConfig)
             ELSE UNCHANGED <<appState, errorMessage, lastConfig,
                              initialFormValues, attempts, keyChecks>>
          /\ UNCHANGED continues
  /\ afterReset' = FALSE
  /\ UNCHANGED <<aistudio, videoUrl, lastVideoObject, lastVideoBlob,
                 mountCheck>>
  /\ FailedConfigKept
  /\ UNCHANGED <<ixVars, clsVars>>

\* handleApiKeyDialogContinue resumes after openSelectKey, with the appState,
\* lastConfig and handleRetry of the render it was created in
ContinueReturns ==
  \E closure \in BagToSet(continues) :
    /\ continues' = continues (-) SetToBag({closure})
    /\ IF closure.appState = "ERROR" /\ closure.lastConfig # Null
       THEN handleRetry(closure.lastConfig)
       ELSE UNCHANGED <<appState, errorMessage, lastConfig,
                        initialFormValues, attempts, keyChecks>>
    /\ UNCHANGED <<aistudio, videoUrl, lastVideoObject, lastVideoBlob,
                   showApiKeyDialog, mountCheck, afterReset>>
    /\ FailedConfigKept
    /\ UNCHANGED <<ixVars, clsVars>>

\* openSelectKey rejects: handleApiKeyDialogContinue ends there
ContinueFails ==
  \E closure \in BagToSet(continues) :
    /\ continues' = continues (-) SetToBag({closure})
    /\ UNCHANGED <<aistudio, appState, videoUrl, errorMessage, lastConfig,
                   lastVideoObject, lastVideoBlob, showApiKeyDialog,
                   initialFormValues, mountCheck, keyChecks, attempts,
                   afterReset>>
    /\ FailedConfigKept
    /\ UNCHANGED <<ixVars, clsVars>>

StepApp ==
  \/ MountCheckReturns
  \/ SubmitForm
  \/ KeyCheckReturns
  \/ AttemptSucceeds
  \/ AttemptFails
  \/ ClickRetry
  \/ ClickNewVideo
  \/ ClickExtend
  \/ ClickTryAgain
  \/ ClickContinue
  \/ ContinueReturns
  \/ ContinueFails

(***************************************************************************)
(* The catch blocks as functions of the thrown value.                      *)
(***************************************************************************)
\* the fixed Errors index.tsx's generateContent throws itself
OwnErrors ==
  { [isError |-> TRUE, message |-> m] :
      m \in {MsgPollFailed, MsgTimedOut, MsgNoVideos} }

InitClassify ==
  /\ thrown \in Thrown \cup OwnErrors
  /\ classified = Null

\* both catch blocks run on the value thrown
ClassifyBoth ==
  /\ classified = Null
  /\ classified' = [index |-> ClassifyIndex(MessageOf(thrown)),
                    app |-> ClassifyApp(MessageOf(thrown))]
  /\ UNCHANGED <<aistudio, thrown, ixVars, appVars>>

(***************************************************************************)
(* handleExtend as a function of the slots it reads.                       *)
(***************************************************************************)
\* GenerateVideoParams values of every mode, resolution, model and aspect
\* ratio, each optional field absent (or null) or set
PriorParams ==
  [prompt : {"", "a cat"}, model : VeoModels, aspectRatio : AspectRatios,
   resolution : Resolutions, mode : GenerationModes,
   startFrame : {Null, Image},
   endFrame : {Undefined, Image},
   referenceImages : {Undefined, Images(<<Image, Image>>)},
   styleImage : {Null, Image},
   inputVideo : {Null, VideoFileOf(Blob("1080p"))},
   inputVideoObject : {Undefined, Video("1080p")},
   isLooping : {Undefined, Bool(TRUE)}]

\* the result is shown, with any request, blob and video object in the slots
InitExtend ==
  /\ appState = "SUCCESS"
  /\ videoUrl = ObjectUrl("720p")
  /\ errorMessage = Null
  /\ lastConfig \in PriorParams \cup {Null}
  /\ lastVideoObject \in {Null, Video("720p"), Video("1080p")}
  /\ lastVideoBlob \in {Null, Blob("720p"), Blob("1080p")}
  /\ showApiKeyDialog = FALSE
  /\ initialFormValues = Null
  /\ mountCheck = FALSE
  /\ keyChecks = EmptyBag
  /\ attempts = EmptyBag
  /\ continues = EmptyBag
  /\ afterReset = FALSE
  /\ failedConfig = Null

\* handleExtend is called
CallExtend ==
  /\ appState = "SUCCESS"
  /\ handleExtend
  /\ UNCHANGED <<aistudio, showApiKeyDialog, mountCheck, keyChecks, attempts,
                 continues, afterReset>>
  /\ FailedConfigKept
  /\ UNCHANGED <<ixVars, clsVars>>

(***************************************************************************)
(* Specifications.                                                         *)
(***************************************************************************)
vars == <<aistudio, ixVars, appVars, clsVars>>

InitPure == thrown = [isError |-> FALSE, message |-> <<>>] /\ classified = Null

Init == aistudio \in BOOLEAN /\ InitIndex /\ InitApp /\ InitPure

\* index.tsx alone
NextIndex == StepIndex
SpecIndex == Init /\ [][NextIndex]_vars

\* index.tsx where every remote call, and every wait of the polling
\* interval, eventually returns or fails
RemoteCallsEnd ==
  /\ WF_vars(SubmitReturns \/ SubmitFails)
  /\ WF_vars(DelayElapses)
  /\ WF_vars(QueryReturns \/ QueryFails)
  /\ WF_vars(LoopBody)
  /\ WF_vars(FetchReturns \/ FetchFails)
  /\ WF_vars(BlobReturns \/ BlobFails)
SpecIndexLive == Init /\ [][NextIndex]_vars /\ RemoteCallsEnd

\* index.tsx where, besides, the host's key selection eventually resolves or
\* rejects
SpecIndexDialogLive ==
  /\ Init /\ [][NextIndex]_vars /\ RemoteCallsEnd
  /\ WF_vars(ErrDialogReturns \/ ErrDialogFails)

\* the App component alone
NextApp == StepApp
SpecApp == Init /\ [][NextApp]_vars

\* the App component where every call of generateVideo eventually resolves
\* or rejects
SpecAppLive ==
  Init /\ [][NextApp]_vars /\ WF_vars(AttemptSucceeds \/ AttemptFails)

\* the two catch blocks on every thrown value
InitOfClassify == aistudio = FALSE /\ InitIndex /\ InitApp /\ InitClassify
NextClassify == ClassifyBoth
SpecClassify == InitOfClassify /\ [][NextClassify]_vars

\* handleExtend on every content of the slots it reads
InitOfExtend == aistudio = FALSE /\ InitIndex /\ InitExtend /\ InitPure
NextExtend == CallExtend
SpecExtend == InitOfExtend /\ [][NextExtend]_vars

(***************************************************************************)
(* Properties of index.tsx's polling loop (SpecIndex).                     *)
(***************************************************************************)
\* the attempt started by the last click has ended (generateContent returned
\* or threw)
AttemptEnded == calls.submit = 1 /\ pc \in {"idle", "errDialog"}

\* the attempt ended in success: generateContent returned
AttemptSucceeded == AttemptEnded /\ failedAt = "none"

\* C1: an attempt whose submission and status queries were all answered and
\* never answered done issues exactly 20 status queries and ends with the
\* timeout error shown, having fetched nothing; and while no answer has
\* reported done, no more than 20 queries and no fetch are ever issued.
C1_TimeoutAfterMaxPolls ==
  /\ ~seen.done => calls.query <= 20 /\ calls.fetch = 0
  /\ (AttemptEnded /\ ~seen.done /\ failedAt \notin {"submit", "query"}) =>
       /\ calls.query = 20
       /\ failedAt = "timeout"
       /\ caught = MsgTimedOut
       /\ statusEl = StatusError(<<"Error:">> \o MsgTimedOut)
       /\ ~AttemptSucceeded
  /\ failedAt = "timeout" => calls.query = 20 /\ ~seen.done

C1_Witness ==
  pc = "idle" /\ failedAt = "timeout" /\ calls.query = 20 /\ ~seen.done

\* C2: once a response (of the submission or of a status query) has reported
\* done with no videos, the attempt has ended with the "No videos were
\* generated. The prompt may have been blocked." error shown, is not a
\* success, and no fetch was issued.
C2_DoneEmptyFails ==
  seen.doneEmpty =>
    /\ pc = "idle"
    /\ failedAt = "empty"
    /\ caught = MsgNoVideos
    /\ statusEl = StatusError(<<"Error:">> \o MsgNoVideos)
    /\ ~AttemptSucceeded
    /\ calls.fetch = 0
    /\ videoEl.display = "none"

C2_Witness ==
  seen.doneEmpty /\ calls.query > 0 /\ failedAt = "empty"

C2_WitnessOnSubmission ==
  seen.doneEmpty /\ calls.query = 0 /\ failedAt = "empty"

(***************************************************************************)
(* Properties of the App component (SpecApp).                              *)
(***************************************************************************)
\* C3: a submit that finds no usable credential (hasSelectedApiKey answers
\* false or throws) starts no attempt, so calls no remote API, moves the
\* session to the failed state and opens the credential dialog.
C3_NoCredentialSubmitFails ==
  [][(\E k \in BagToSet(keyChecks), r \in {"none", "threw"} :
        KeyCheckResumes(k, r))
       => /\ attempts' = attempts
          /\ showApiKeyDialog'
          /\ appState' = "ERROR"]_vars

\* C4: the completion, success or failure, of an attempt that a later
\* attempt or a reset has superseded changes none of the lifecycle state, the
\* held request, the result and the error message.
C4_StaleCompletionIgnored ==
  [][\A a \in BagToSet(attempts) :
       (a.stale /\ (AttemptResolves(a)
                      \/ \E e \in RemoteThrown : AttemptRejects(a, e)))
         => UNCHANGED <<appState, lastConfig, videoUrl, lastVideoBlob,
                        lastVideoObject, errorMessage>>]_vars

\* C5: at most one attempt (a call of generateVideo) is in flight.
C5_AtMostOneAttempt == BagCardinality(attempts) <= 1

\* C9: whenever the result is shown with canExtend true, the blob and the
\* video object are held and they, like the video shown, came from a request
\* of resolution 720p.
C9_ExtendOnlyFor720p ==
  ExtendOffered =>
    /\ lastVideoBlob = Blob("720p")
    /\ lastVideoObject = Video("720p")
    /\ videoUrl = ObjectUrl("720p")

\* C10: from handleNewVideo until the next user command the session is idle
\* with the held request, the result (url, blob, video object), the error
\* message and the form's initial values all null.
C10_ResetStaysClear ==
  afterReset =>
    /\ appState = "IDLE"
    /\ videoUrl = Null
    /\ lastVideoBlob = Null
    /\ lastVideoObject = Null
    /\ lastConfig = Null
    /\ errorMessage = Null
    /\ initialFormValues = Null

(***************************************************************************)
(* Properties of the error classification (SpecClassify, SpecIndex).       *)
(***************************************************************************)
\* the kind the precedence rule gives a message: the entity-not-found phrase
\* first, then the three invalid-key phrases (the last one in any case), else
\* unknown
KindByRule(message) ==
  IF Includes(message, <<"Requested", "entity", "was", "not", "found.">>)
  THEN "not-found"
  ELSE IF \/ Includes(message, <<"API_KEY_INVALID">>)
          \/ Includes(message, <<"API", "key", "not", "valid">>)
          \/ \E k \in 1..(Len(message) - 1) :
               /\ LowerWord(message[k]) = "permission"
               /\ LowerWord(message[k + 1]) = "denied"
  THEN "credential-invalid"
  ELSE "unknown"

\* C6: both catch blocks classify every message by the precedence rule, and
\* so alike; a message of kind unknown is shown unchanged after the fixed
\* prefix ("Error:" in index.tsx, "Video generation failed:" in App).
C6_ClassificationPrecedence ==
  classified # Null =>
    LET message == MessageOf(thrown)
        kind == KindByRule(message)
    IN /\ classified.index.branch = kind
       /\ classified.app.branch = kind
       /\ classified.index.shouldOpenDialog = classified.app.shouldOpenDialog
       /\ kind = "unknown" =>
            /\ classified.index.userFriendlyMessage = <<"Error:">> \o message
            /\ classified.app.userFriendlyMessage =
                 <<"Video", "generation", "failed:">> \o message
       /\ kind # "unknown" =>
            /\ ~Includes(classified.index.userFriendlyMessage, message)
                 \/ message = <<>>
            /\ classified.index.userFriendlyMessage[1] # "Error:"

\* a message with the not-found phrase and an invalid-key phrase has been
\* classified
C6_Witness ==
  /\ classified # Null
  /\ Includes(MessageOf(thrown), PhraseNotFound)
  /\ Includes(MessageOf(thrown), PhraseKeyNotValid)
  /\ classified.app.branch = "not-found"

\* the kind of the failure of the last click of index.tsx: by the statement
\* for the return without a key, the timeout and the empty result, by the
\* message for every other throw
FailureKind ==
  CASE failedAt = "none" -> "none"
    [] failedAt = "nokey" -> "credential-missing"
    [] failedAt = "timeout" -> "timeout"
    [] failedAt = "empty" -> "empty-result"
    [] OTHER -> KindByRule(caught)

\* C7: a failed attempt of index.tsx has called openApiKeyDialog exactly when
\* its kind is not-found, credential-invalid or credential-missing; after a
\* timeout, an empty result or an unknown failure it has not.
C7_DialogIffCredentialKind ==
  /\ FailureKind \in {"not-found", "credential-invalid", "credential-missing"}
       => dialogAsked
  /\ FailureKind \in {"timeout", "empty-result", "unknown", "none"}
       => ~dialogAsked
  /\ pc = "errDialog" => dialogAsked

C7_Witness ==
  /\ pc = "errDialog"
  /\ FailureKind = "credential-invalid"
  /\ dialogAsked

C7_WitnessClosed ==
  FailureKind = "timeout" /\ ~dialogAsked /\ pc = "idle"

\* C7 in the App component: the catch block of handleGenerate sets
\* showApiKeyDialog for the kinds not-found and credential-invalid and leaves
\* it as it is for the kind unknown.
C7_AppDialogIffCredentialKind ==
  [][\A a \in BagToSet(attempts), e \in RemoteThrown :
       AttemptRejects(a, e) =>
         IF KindByRule(MessageOf(e)) \in {"not-found", "credential-invalid"}
         THEN showApiKeyDialog'
         ELSE showApiKeyDialog' = showApiKeyDialog]_vars

(***************************************************************************)
(* Properties of handleExtend (SpecExtend).                                *)
(***************************************************************************)
\* C8: whatever request, blob and video object the slots hold, handleExtend
\* sets the form's initial values to a request with mode Extend Video,
\* resolution 720p, an empty prompt, isLooping false, startFrame, endFrame and
\* styleImage null, referenceImages empty, inputVideo a file made of the blob
\* held, inputVideoObject the video object held, and model and aspectRatio
\* those of the request held; the request held stays as it was.
C8_ExtendDerivation ==
  [][(CallExtend /\ lastConfig # Null /\ lastVideoBlob # Null
        /\ lastVideoObject # Null) =>
     LET v == initialFormValues'
     IN /\ v.mode = "Extend Video"
        /\ v.resolution = "720p"
        /\ v.prompt = ""
        /\ v.isLooping = Bool(FALSE)
        /\ v.startFrame = Null
        /\ v.endFrame = Null
        /\ v.styleImage = Null
        /\ v.referenceImages = Images(<<>>)
        /\ v.inputVideo.file.bits = lastVideoBlob
        /\ v.inputVideo.base64 = ""
        /\ v.inputVideoObject = lastVideoObject
        /\ v.model = lastConfig.model
        /\ v.aspectRatio = lastConfig.aspectRatio
        /\ lastConfig' = lastConfig
        /\ lastVideoBlob' = lastVideoBlob
        /\ lastVideoObject' = lastVideoObject]_vars

\* handleExtend has run on a 1080p frames-to-video request with every media
\* field set
C8_Witness ==
  /\ initialFormValues # Null
  /\ initialFormValues.mode = "Extend Video"
  /\ lastConfig.mode = "Frames to Video"
  /\ lastConfig.resolution = "1080p"
  /\ lastConfig.startFrame = Image
  /\ lastConfig.isLooping = Bool(TRUE)
  /\ lastVideoBlob = Blob("1080p")

(***************************************************************************)
(* Properties of handleRetry and handleTryAgainFromError (SpecApp).        *)
(***************************************************************************)
\* a call of handleGenerate made by handleRetry reaches generateVideo with
\* the request params: after its key check, or at once without window.aistudio
RetryStartsAttempt(params) ==
  \/ \E k \in BagToSet(keyChecks) :
       k.retry /\ k.params = params /\ KeyCheckResumes(k, "selected")
  \/ /\ ~aistudio
     /\ ClickRetry \/ ClickContinue
     /\ attempts' # attempts
     /\ lastConfig' = params

\* C11: an attempt started by a retry starts while the session is in ERROR or
\* SUCCESS with no other attempt in flight, and with exactly the request held
\* at that moment; a retry with no request held changes nothing.
C11_RetryResubmitsHeld ==
  [][/\ \A params \in FormSubmissions \cup {lastConfig, lastConfig'} :
          RetryStartsAttempt(params) =>
            /\ appState \in {"ERROR", "SUCCESS"}
            /\ attempts = EmptyBag
            /\ lastConfig = params
     /\ (ClickRetry /\ lastConfig = Null) =>
          UNCHANGED <<appState, videoUrl, errorMessage, lastConfig,
                      lastVideoObject, lastVideoBlob, initialFormValues,
                      keyChecks, attempts>>]_vars

\* the same without window.aistudio, where handleGenerate has no await before
\* generateVideo
C11_RetryResubmitsHeldSequential ==
  [][~aistudio =>
       \A params \in FormSubmissions \cup {lastConfig, lastConfig'} :
          RetryStartsAttempt(params) =>
            /\ appState \in {"ERROR", "SUCCESS"}
            /\ attempts = EmptyBag
            /\ lastConfig = params]_vars

(***************************************************************************)
(* Properties of the attempt as a whole (SpecIndexLive, SpecAppLive).      *)
(***************************************************************************)
\* a remote call of generateContent (the submission, a status query, the
\* fetch or the reading of its body) or the decoding of the uri fails
RemoteCallFails ==
  SubmitFails \/ QueryFails \/ FetchFails \/ BlobFails
    \/ (LoopBody /\ failedAt' = "decode")

\* C12: in index.tsx every failure of a remote call is caught: it ends
\* generateContent, a red status text that is not empty is shown and
\* generate()'s promise is not rejected by it; and, when every remote call
\* returns or fails, every attempt started ends, with the video shown or
\* with an error shown.
C12_AttemptAlwaysEnds ==
  /\ [][RemoteCallFails =>
          /\ pc' \in {"idle", "errDialog"}
          /\ statusEl'.error /\ statusEl'.text # <<>>
          /\ failedAt' # "none"
          /\ uncaught' = uncaught]_vars
  /\ [](AttemptEnded /\ ~AttemptSucceeded =>
          statusEl.error /\ statusEl.text # <<>>)
  /\ (pc = "submit") ~> AttemptEnded

\* the download of the video failed and the error is shown
C12_Witness ==
  /\ pc = "idle"
  /\ failedAt \in {"fetch", "blob"}
  /\ statusEl.error
  /\ ~controls.generateButton

\* C12 in the App component: a rejection of generateVideo is caught and shown
\* as ERROR with a message, LOADING is never left without an attempt in
\* flight, and when every call of generateVideo resolves or rejects LOADING
\* leads to SUCCESS or ERROR.
C12_AppAttemptAlwaysEnds ==
  /\ [][\A a \in BagToSet(attempts), e \in RemoteThrown :
          AttemptRejects(a, e) =>
            /\ appState' = "ERROR"
            /\ errorMessage' # Null /\ errorMessage'.str # <<>>]_vars
  /\ [](appState = "LOADING" => attempts # EmptyBag)
  /\ (appState = "LOADING") ~> (appState \in {"SUCCESS", "ERROR"})

\* a response of the current click has reported done with at least one video
DoneWithVideos == seen.done /\ ~seen.doneEmpty

\* C13: once a response, of the submission (k = 0) or of the k-th status
\* query (k up to 20), has reported done with at least one video, no further
\* status query is issued, the attempt goes on to the download and unless a
\* download step fails it ends in success with the video shown: never in the
\* timeout, also when k = 20.
C13_DoneOnKthQuerySucceeds ==
  /\ [](DoneWithVideos =>
          /\ calls.query <= maxPolls
          /\ pc \in {"iter", "fetch", "blob", "idle", "errDialog"}
          /\ failedAt \in {"none", "decode", "fetch", "blob"}
          /\ pc \in {"iter", "fetch", "blob"} => failedAt = "none"
          /\ (AttemptSucceeded =>
                /\ pc = "idle"
                /\ calls.fetch >= 1
                /\ videoEl = [src |-> TRUE, display |-> "block"]
                /\ statusEl = StatusText(<<>>)))
  /\ [][DoneWithVideos /\ seen'.done => calls'.query = calls.query]_vars
  /\ DoneWithVideos ~>
       (AttemptEnded /\ failedAt \in {"none", "decode", "fetch", "blob"})

\* the 20th status query was the first to report done, and the attempt
\* succeeded
C13_Witness ==
  /\ DoneWithVideos
  /\ calls.query = maxPolls
  /\ AttemptSucceeded
  /\ videoEl.src

\* done in the submission's response: no status query at all
C13_WitnessNoQuery ==
  DoneWithVideos /\ calls.query = 0 /\ AttemptSucceeded

(***************************************************************************)
(* Properties of a failing status query (SpecIndex).                       *)
(***************************************************************************)
\* C14: a status query that fails ends the attempt at once with the error
\* shown; from then on, until the next click, no status query and no fetch is
\* issued, and none was fetched before.
C14_FailedQueryIsFatal ==
  /\ [][QueryFails =>
          /\ pc' = "idle"
          /\ failedAt' = "query"
          /\ calls' = calls
          /\ statusEl'.error
          /\ controls' = ControlsAre(FALSE)]_vars
  /\ [][failedAt = "query" /\ failedAt' = "query" => calls' = calls]_vars
  /\ [](failedAt = "query" =>
          /\ pc = "idle"
          /\ calls.fetch = 0
          /\ calls.query \in 1..maxPolls
          /\ ~AttemptSucceeded
          /\ videoEl.display = "none")

\* the third status query failed after two that reported not done
C14_Witness ==
  failedAt = "query" /\ calls.query = 3 /\ pc = "idle" /\ statusEl.error

\* C15: when a status query fails with e, the failure shown is of the kind
\* the classification gives e's message, as for a failing submission: the
\* dialog is asked for exactly when that kind is not-found or
\* credential-invalid, and the message caught is of that kind.
C15_PollFailureClassified ==
  [][\A e \in RemoteThrown :
       QueryRejects(e) =>
         LET kind == KindByRule(MessageOf(e))
         IN /\ dialogAsked' = (kind # "unknown")
            /\ ClassifyIndex(caught').branch = kind]_vars

\* what C15 asks of a status query does hold of the submission
C15_SubmitFailureClassified ==
  [][SubmitFails =>
       /\ dialogAsked' = (KindByRule(caught') # "unknown")
       /\ \E e \in RemoteThrown : caught' = MessageOf(e)]_vars

(***************************************************************************)
(* Properties of the order of the steps of one attempt (SpecIndex).        *)
(***************************************************************************)
\* C16: while the submission is awaited no status query and no fetch has
\* been issued; a status query is issued only as a wait of the polling
\* interval ends, one wait for each query (pollCount counts the waits begun),
\* and only while no response has reported done; a fetch is issued only in
\* the download loop, after a response has reported done with at least one
\* video, and at most one fetch for each video.
C16_StepsInOrder ==
  /\ [](pc = "submit" => calls = [NoCalls EXCEPT !.submit = 1] /\ ~seen.done)
  /\ [](pc = "delay" =>
          calls.submit = 1 /\ pollCount = calls.query + 1 /\ ~seen.done)
  /\ [](pc = "query" =>
          calls.submit = 1 /\ pollCount = calls.query /\ ~seen.done)
  /\ [](pc \in {"delay", "query"} => calls.fetch = 0)
  /\ [](calls.query > 0 \/ calls.fetch > 0 => calls.submit = 1)
  /\ [](calls.fetch > 0 => DoneWithVideos)
  /\ [](pc \in {"iter", "fetch", "blob"} =>
          /\ DoneWithVideos /\ operation.done /\ operation.videos >= 1
          /\ calls.fetch <= operation.videos
          /\ calls.fetch = vidIndex + (IF pc = "iter" THEN 0 ELSE 1))
  /\ [][calls'.query = calls.query + 1 =>
          pc = "delay" /\ pc' = "query" /\ ~operation.done]_vars
  /\ [][calls'.fetch = calls.fetch + 1 =>
          pc = "iter" /\ pc' = "fetch" /\ operation.done]_vars
  /\ [][pc = "submit" => pc' \in {"submit", "delay", "iter", "idle",
                                  "errDialog"}]_vars
  /\ [][pc = "query" => pc' \in {"query", "delay", "iter", "idle"}]_vars

\* submission, two waits and queries, then the fetch of the second of two
\* videos
C16_Witness ==
  /\ pc = "fetch"
  /\ calls = [submit |-> 1, query |-> 2, fetch |-> 2]
  /\ pollCount = 2

(***************************************************************************)
(* Properties of Try Again, of the result held and of the slots (SpecApp). *)
(***************************************************************************)
\* C17: Try Again on the error of a failed attempt, with a request held,
\* shows the form with exactly the failed request as its initial values,
\* clears the error message and keeps the request held; without a request
\* held it does what handleNewVideo does; and the start of the next attempt
\* clears the initial values and holds the request submitted.
C17_TryAgainPrefillsFailed ==
  [][/\ (ClickTryAgain /\ appState = "ERROR" /\ lastConfig # Null) =>
          /\ appState' = "IDLE"
          /\ initialFormValues' = failedConfig
          /\ errorMessage' = Null
          /\ lastConfig' = lastConfig
     /\ (ClickTryAgain /\ lastConfig = Null) =>
          /\ appState' = "IDLE" /\ videoUrl' = Null /\ errorMessage' = Null
          /\ lastConfig' = Null /\ lastVideoObject' = Null
          /\ lastVideoBlob' = Null /\ initialFormValues' = Null
     /\ \A k \in BagToSet(keyChecks) :
          KeyCheckResumes(k, "selected") =>
            initialFormValues' = Null /\ lastConfig' = k.params]_vars

\* what handleTryAgainFromError itself does: the initial values are the
\* request held, whichever attempt failed
C17_TryAgainPrefillsHeld ==
  [][/\ (ClickTryAgain /\ lastConfig # Null) =>
          /\ appState' = "IDLE"
          /\ initialFormValues' = lastConfig
          /\ errorMessage' = Null
          /\ lastConfig' = lastConfig
     /\ (ClickTryAgain /\ lastConfig = Null) =>
          /\ appState' = "IDLE" /\ videoUrl' = Null /\ errorMessage' = Null
          /\ lastConfig' = Null /\ lastVideoObject' = Null
          /\ lastVideoBlob' = Null /\ initialFormValues' = Null
     /\ \A k \in BagToSet(keyChecks) :
          KeyCheckResumes(k, "selected") =>
            initialFormValues' = Null /\ lastConfig' = k.params
     /\ (~aistudio /\ SubmitForm) =>
          initialFormValues' = Null /\ lastConfig' \in FormSubmissions]_vars

\* the same as C17 without window.aistudio
C17_TryAgainPrefillsFailedSequential ==
  [][(~aistudio /\ ClickTryAgain /\ appState = "ERROR"
        /\ lastConfig # Null) =>
       initialFormValues' = failedConfig /\ failedConfig = lastConfig]_vars

\* C18: at any time at most one object URL made for a video is live (made
\* and not revoked): each one is revoked when the next is made.
C18_AtMostOneLiveUrl == liveUrls <= 1

\* C19: in SUCCESS the video URL, the blob and the video object are all
\* present, and in ERROR an error message that is not empty is present: the
\* page never renders the 'URL is missing' fallback or an empty error box.
C19_StateMatchesSlots ==
  /\ appState = "SUCCESS" =>
       videoUrl # Null /\ lastVideoBlob # Null /\ lastVideoObject # Null
  /\ appState = "ERROR" =>
       errorMessage # Null /\ errorMessage.str # <<>>
  /\ appState # "IDLE" => (ResultShown \/ appState = "LOADING"
                            \/ (appState = "ERROR" /\ ErrorShown))

\* a stale attempt's result is shown after a reset: SUCCESS with no request
\* held, and still every part of the result present
C19_Witness ==
  /\ appState = "SUCCESS"
  /\ lastConfig = Null
  /\ videoUrl # Null /\ lastVideoBlob # Null /\ lastVideoObject # Null

\* an error is shown while an attempt is still in flight
C19_WitnessError ==
  appState = "ERROR" /\ errorMessage # Null /\ attempts # EmptyBag

(***************************************************************************)
(* Properties of the controls of index.tsx (SpecIndexDialogLive).          *)
(***************************************************************************)
\* C20: the generate button, the file input and the prompt box are disabled
\* exactly while a call of generate() that found a key is running, from
\* setControlsDisabled(true) to its finally block; every such call reaches
\* its finally block, whatever the outcome, the wait for the key dialog
\* included; a click with a blank prompt or without a key leaves the controls
\* enabled and issues no remote call.
C20_ControlsFollowAttempt ==
  /\ [](controls = ControlsAre(pc # "idle"))
  /\ [][GenerateStart => apiKey /\ controls' = ControlsAre(TRUE)]_vars
  /\ [][ClickBlank \/ GenerateNoKey =>
          /\ controls = ControlsAre(FALSE)
          /\ controls' = ControlsAre(FALSE)
          /\ pc' = "idle"
          /\ calls' = NoCalls]_vars
  /\ [](calls.submit = 1 => failedAt # "nokey")
  /\ (pc # "idle") ~> (pc = "idle" /\ controls = ControlsAre(FALSE))

\* a submission failed with an invalid key, the key dialog was awaited and
\* has returned: the controls are enabled again
C20_Witness ==
  /\ aistudio
  /\ pc = "idle"
  /\ failedAt = "submit"
  /\ dialogAsked
  /\ controls = ControlsAre(FALSE)

\* the controls are still disabled while the key dialog is awaited
C20_WitnessDialog ==
  pc = "errDialog" /\ controls = ControlsAre(TRUE) /\ statusEl.error

=============================================================================
